---- MODULE Spec2Model ----
(***************************************************************************)
(* MarkFlow: the block list and view mode held by the App component        *)
(* (src/App.tsx) and the handlers that change them.                        *)
(*                                                                         *)
(* Representation of values:                                               *)
(*   - a block is a record with fields id, type, content and, optionally,  *)
(*     metadata; metadata is a record whose fields language, alt, items    *)
(*     are each optional (BlockData in src/unnamed/part_000);              *)
(*   - ids, types, contents, languages, alts and list items are strings;   *)
(*   - the Markdown text produced by generateMarkdownString is a sequence  *)
(*     of characters, one one-character string per character, because a    *)
(*     TLA+ string literal cannot hold the backtick of a code fence: that  *)
(*     one character is written Backtick.                                  *)
(***************************************************************************)
EXTENDS Integers, Sequences, FiniteSets, TLC

VARIABLES blocks, viewMode, issued, prev, lastOp, steps

vars == <<blocks, viewMode, issued, prev, lastOp, steps>>

----------------------------------------------------------------------------
(* Bounds of the exploration *)

\* document edits and exports explored along one behaviour
MaxSteps == 3
\* size of the pool crypto.randomUUID draws from
MaxUUIDs == 1
\* length of the documents the serializer is applied to in SpecSerialize
MaxSerLen == 2

----------------------------------------------------------------------------
(* Types *)

BlockType ==
  {"h1", "h2", "h3", "paragraph", "image", "code", "blockquote",
   "list-ul", "list-ol", "divider"}

ViewModes == {"edit", "preview", "code"}

Directions == {"up", "down"}

----------------------------------------------------------------------------
(* Strings as character sequences *)

Backtick == "U+0060"

Chars(s) == [i \in 1..Len(s) |-> SubSeq(s, i, i)]

\* String.prototype.includes
includes(s, sub) ==
  \E i \in 0..(Len(s) - Len(sub)) : SubSeq(s, i + 1, i + Len(sub)) = sub

Digit(d) == SubSeq("0123456789", d + 1, d + 1)

\* the decimal text a template literal gives a non-negative integer
RECURSIVE NumberToString(_)
NumberToString(n) ==
  IF n < 10 THEN <<Digit(n)>>
  ELSE NumberToString(n \div 10) \o <<Digit(n % 10)>>

\* Array.prototype.join
RECURSIVE join(_, _)
join(arr, sep) ==
  IF arr = <<>> THEN <<>>
  ELSE IF Len(arr) = 1 THEN arr[1]
  ELSE arr[1] \o sep \o join(Tail(arr), sep)

----------------------------------------------------------------------------
(* Initial document *)

INITIAL_BLOCKS ==
  << [id |-> "1", type |-> "h1", content |-> "Welcome to MarkFlow"],
     [id |-> "2", type |-> "paragraph",
      content |-> "This is a low-code Markdown editor designed with the Gemini aesthetics. Drag blocks and export seamlessly."] >>

UUIDOf(i) == "uuid-" \o ToString(i)

\* the values crypto.randomUUID can return
UUID == { UUIDOf(i) : i \in 1..MaxUUIDs }

\* the ids a caller can hold: the two literal ids and the UUIDs generated
KnownIds == {"1", "2"} \cup issued

\* the Partial<BlockData> values explored as the updates argument
Updates ==
  { [content |-> "T"],
    [metadata |-> [items |-> <<"a", "b">>]],
    [metadata |-> [alt |-> "pic"]],
    [id |-> "1"],
    [type |-> "list-ul"] }

----------------------------------------------------------------------------
(* Block management: the state updaters *)

\* addBlock giving the default items to the bullet list only
addBlock_onlyBulletItems(d, type, id) ==
  Append(d, [id |-> id,
             type |-> type,
             content |-> "",
             metadata |-> IF type = "list-ul"
                            THEN [items |-> <<"">>]
                            ELSE [f \in {} |-> ""]])

\* addBlock, with id the value crypto.randomUUID returned
addBlock(d, type, id) ==
  LET newBlock ==
        [id |-> id,
         type |-> type,
         content |-> "",
         metadata |-> IF includes(type, "list")
                        THEN [items |-> <<"">>]
                        ELSE [f \in {} |-> ""]]
  IN Append(d, newBlock)

\* object spread { ...b, ...updates }
spread(b, updates) ==
  [f \in (DOMAIN b) \cup (DOMAIN updates) |->
     IF f \in DOMAIN updates THEN updates[f] ELSE b[f]]

\* updateBlock with the comparison of ids negated
updateBlock_negated(d, id, updates) ==
  [i \in 1..Len(d) |-> IF d[i].id # id THEN spread(d[i], updates) ELSE d[i]]

updateBlock(d, id, updates) ==
  [i \in 1..Len(d) |-> IF d[i].id = id THEN spread(d[i], updates) ELSE d[i]]

\* Array.prototype.filter with b => b.id !== id
RECURSIVE removeBlock(_, _)
removeBlock(d, id) ==
  IF d = <<>> THEN <<>>
  ELSE IF Head(d).id # id
         THEN <<Head(d)>> \o removeBlock(Tail(d), id)
         ELSE removeBlock(Tail(d), id)

\* Array.prototype.findIndex with b => b.id === id; 0-based, -1 when absent
RECURSIVE findIndexFrom(_, _, _)
findIndexFrom(d, id, i) ==
  IF i >= Len(d) THEN -1
  ELSE IF d[i + 1].id = id THEN i
  ELSE findIndexFrom(d, id, i + 1)

findIndex(d, id) == findIndexFrom(d, id, 0)

\* moveBlock moving the first block up to the end and the last down to the front
moveBlock_wrapAround(d, id, direction) ==
  LET index == findIndex(d, id) IN
  IF index = -1 THEN d
  ELSE LET swapIndex == IF direction = "up"
                          THEN (index - 1 + Len(d)) % Len(d)
                          ELSE (index + 1) % Len(d)
       IN [i \in 1..Len(d) |->
             IF i = index + 1 THEN d[swapIndex + 1]
             ELSE IF i = swapIndex + 1 THEN d[index + 1]
             ELSE d[i]]

\* moveBlock taking the block before the last for the last
moveBlock_offByOne(d, id, direction) ==
  LET index == findIndex(d, id) IN
  IF index = -1 THEN d
  ELSE IF direction = "up" /\ index = 0 THEN d
  ELSE IF direction = "down" /\ index >= Len(d) - 2 THEN d
  ELSE LET swapIndex == IF direction = "up" THEN index - 1 ELSE index + 1
       IN [i \in 1..Len(d) |->
             IF i = index + 1 THEN d[swapIndex + 1]
             ELSE IF i = swapIndex + 1 THEN d[index + 1]
             ELSE d[i]]

\* moveBlock assigning the two positions one after the other instead of swapping
moveBlock_overwrite(d, id, direction) ==
  LET index == findIndex(d, id) IN
  IF index = -1 THEN d
  ELSE IF direction = "up" /\ index = 0 THEN d
  ELSE IF direction = "down" /\ index = Len(d) - 1 THEN d
  ELSE LET swapIndex == IF direction = "up" THEN index - 1 ELSE index + 1
       IN [i \in 1..Len(d) |->
             IF i = index + 1 THEN d[swapIndex + 1]
             ELSE IF i = swapIndex + 1 THEN d[swapIndex + 1]
             ELSE d[i]]

moveBlock(d, id, direction) ==
  LET index == findIndex(d, id) IN
  IF index = -1 THEN d
  ELSE IF direction = "up" /\ index = 0 THEN d
  ELSE IF direction = "down" /\ index = Len(d) - 1 THEN d
  ELSE LET swapIndex == IF direction = "up" THEN index - 1 ELSE index + 1
       IN [i \in 1..Len(d) |->
             IF i = index + 1 THEN d[swapIndex + 1]
             ELSE IF i = swapIndex + 1 THEN d[index + 1]
             ELSE d[i]]

----------------------------------------------------------------------------
(* Output generation *)

\* block.metadata?.f is defined
hasMeta(block, f) ==
  "metadata" \in DOMAIN block /\ f \in DOMAIN block.metadata

\* block.metadata?.language || ''
languageOf(block) ==
  IF hasMeta(block, "language") /\ block.metadata.language # ""
    THEN block.metadata.language ELSE ""

\* block.metadata?.alt || 'image'
altOf(block) ==
  IF hasMeta(block, "alt") /\ block.metadata.alt # ""
    THEN block.metadata.alt ELSE "image"

\* block.metadata?.items || []
itemsOf(block) ==
  IF hasMeta(block, "items") THEN block.metadata.items ELSE <<>>

Fence == <<Backtick, Backtick, Backtick>>

\* the switch of generateMarkdownString
renderBlock(block) ==
  CASE block.type = "h1" -> Chars("# ") \o Chars(block.content)
    [] block.type = "h2" -> Chars("## ") \o Chars(block.content)
    [] block.type = "h3" -> Chars("### ") \o Chars(block.content)
    [] block.type = "paragraph" -> Chars(block.content)
    [] block.type = "blockquote" -> Chars("> ") \o Chars(block.content)
    [] block.type = "code" ->
         Fence \o Chars(languageOf(block)) \o Chars("\n")
           \o Chars(block.content) \o Chars("\n") \o Fence
    [] block.type = "image" ->
         Chars("![") \o Chars(altOf(block)) \o Chars("](")
           \o Chars(block.content) \o Chars(")")
    [] block.type = "list-ul" ->
         join([i \in 1..Len(itemsOf(block)) |->
                 Chars("- ") \o Chars(itemsOf(block)[i])], Chars("\n"))
    [] block.type = "list-ol" ->
         join([i \in 1..Len(itemsOf(block)) |->
                 NumberToString((i - 1) + 1) \o Chars(". ")
                   \o Chars(itemsOf(block)[i])], Chars("\n"))
    [] block.type = "divider" -> Chars("---")
    [] OTHER -> <<>>

\* generateMarkdownString joining with a single newline
generateMarkdownString_singleNewline(currentBlocks) ==
  join([i \in 1..Len(currentBlocks) |-> renderBlock(currentBlocks[i])],
       Chars("\n"))

generateMarkdownString(currentBlocks) ==
  join([i \in 1..Len(currentBlocks) |-> renderBlock(currentBlocks[i])],
       Chars("\n\n"))

----------------------------------------------------------------------------
(* The App component as a state machine *)

Init ==
  /\ blocks = INITIAL_BLOCKS
  /\ viewMode = "edit"
  /\ issued = {}
  /\ prev = INITIAL_BLOCKS
  /\ lastOp = [op |-> "init"]
  /\ steps = 0

\* addBlock that also brings the editor back
AddBlock_switchesToEdit(type, id) ==
  /\ steps < MaxSteps
  /\ id \in UUID \ issued
  /\ blocks' = addBlock(blocks, type, id)
  /\ issued' = issued \cup {id}
  /\ prev' = blocks
  /\ lastOp' = [op |-> "addBlock", type |-> type, id |-> id]
  /\ steps' = steps + 1
  /\ viewMode' = "edit"

\* a sidebar button: addBlock(type)
AddBlock(type, id) ==
  /\ steps < MaxSteps
  /\ id \in UUID \ issued
  /\ blocks' = addBlock(blocks, type, id)
  /\ issued' = issued \cup {id}
  /\ prev' = blocks
  /\ lastOp' = [op |-> "addBlock", type |-> type, id |-> id]
  /\ steps' = steps + 1
  /\ UNCHANGED viewMode

\* a BlockEditor, shown in edit mode only, calls updateBlock(id, updates)
UpdateBlock(id, updates) ==
  /\ steps < MaxSteps
  /\ viewMode = "edit"
  /\ blocks' = updateBlock(blocks, id, updates)
  /\ prev' = blocks
  /\ lastOp' = [op |-> "updateBlock", id |-> id, updates |-> updates]
  /\ steps' = steps + 1
  /\ UNCHANGED <<viewMode, issued>>

RemoveBlock(id) ==
  /\ steps < MaxSteps
  /\ viewMode = "edit"
  /\ blocks' = removeBlock(blocks, id)
  /\ prev' = blocks
  /\ lastOp' = [op |-> "removeBlock", id |-> id]
  /\ steps' = steps + 1
  /\ UNCHANGED <<viewMode, issued>>

MoveBlock(id, direction) ==
  /\ steps < MaxSteps
  /\ viewMode = "edit"
  /\ blocks' = moveBlock(blocks, id, direction)
  /\ prev' = blocks
  /\ lastOp' = [op |-> "moveBlock", id |-> id, direction |-> direction]
  /\ steps' = steps + 1
  /\ UNCHANGED <<viewMode, issued>>

\* a button of the view mode switcher
SetViewMode(mode) ==
  /\ viewMode' = mode
  /\ prev' = blocks
  /\ lastOp' = [op |-> "setViewMode", mode |-> mode]
  /\ UNCHANGED <<blocks, issued, steps>>

\* the export button; md is the text put in the blob
HandleDownload ==
  /\ steps < MaxSteps
  /\ prev' = blocks
  /\ lastOp' = [op |-> "handleDownload", md |-> generateMarkdownString(blocks)]
  /\ steps' = steps + 1
  /\ UNCHANGED <<blocks, viewMode, issued>>

Next ==
  \/ \E type \in BlockType, id \in UUID : AddBlock(type, id)
  \/ \E id \in KnownIds, updates \in Updates : UpdateBlock(id, updates)
  \/ \E id \in KnownIds : RemoveBlock(id)
  \/ \E id \in KnownIds, direction \in Directions : MoveBlock(id, direction)
  \/ \E mode \in ViewModes : SetViewMode(mode)
  \/ HandleDownload

Spec == Init /\ [][Next]_vars

----------------------------------------------------------------------------
(* Serialization applied to documents drawn from a bounded set *)

SerContents == {"", "T"}

EmptyMetadata == [f \in {} |-> ""]

FullMetadata == [language |-> "js", alt |-> "pic", items |-> <<"x">>]

TenItems == [i \in 1..10 |-> "i"]

SerMetadata(type) ==
  {FullMetadata} \cup
  CASE type = "code" -> {EmptyMetadata, [language |-> "py"], [language |-> ""]}
    [] type = "image" -> {EmptyMetadata, [alt |-> "a"], [alt |-> ""]}
    [] type \in {"list-ul", "list-ol"} ->
         {EmptyMetadata, [items |-> <<>>], [items |-> <<"">>],
          [items |-> <<"a", "b">>], [items |-> TenItems]}
    [] OTHER -> {}

\* blocks without their id
SerBlocks ==
  { [type |-> t, content |-> c] : t \in BlockType, c \in SerContents }
  \cup
  UNION { { [type |-> t, content |-> "T", metadata |-> m] :
              m \in SerMetadata(t) } : t \in BlockType }

\* the document of the blocks f[1], ..., f[n], the block at position i having id i
SerDoc(n, f) == [i \in 1..n |-> spread(f[i], [id |-> ToString(i)])]

InitSerialize ==
  /\ \E n \in 0..MaxSerLen : \E f \in [1..n -> SerBlocks] : blocks = SerDoc(n, f)
  /\ viewMode = "edit"
  /\ issued = {}
  /\ prev = blocks
  /\ lastOp = [op |-> "init"]
  /\ steps = 0

NextSerialize == HandleDownload

SpecSerialize == InitSerialize /\ [][NextSerialize]_vars

----------------------------------------------------------------------------
(* Vocabulary of the properties *)

IdsOf(d) == { d[i].id : i \in 1..Len(d) }

\* 1-based position of the block that carries id (the first one, should
\* several carry it); 0 when no block does
PositionOf(d, id) ==
  IF id \in IdsOf(d)
    THEN CHOOSE i \in 1..Len(d) :
           d[i].id = id /\ \A j \in 1..(i - 1) : d[j].id # id
    ELSE 0

ListKinds == {"list-ul", "list-ol"}

DocumentOps == {"addBlock", "updateBlock", "removeBlock", "moveBlock"}

\* the last step was moveBlock outside its edge cases
MovedInside ==
  /\ lastOp.op = "moveBlock"
  /\ PositionOf(prev, lastOp.id) # 0
  /\ ~(lastOp.direction = "up" /\ PositionOf(prev, lastOp.id) = 1)
  /\ ~(lastOp.direction = "down" /\ PositionOf(prev, lastOp.id) = Len(prev))

----------------------------------------------------------------------------
(* Properties *)

\* C1: Update never changes the id or the kind of any block: after
\* updateBlock(id, updates), whatever updates holds, the block at each
\* position has the id and the type the block at that position had before.
C1_UpdateKeepsIdAndKind ==
  lastOp.op = "updateBlock" =>
    /\ Len(blocks) = Len(prev)
    /\ \A i \in 1..Len(prev) :
         blocks[i].id = prev[i].id /\ blocks[i].type = prev[i].type

\* C2: in every reachable state no two blocks of the document have the
\* same id.
C2_UniqueIds ==
  \A i, j \in 1..Len(blocks) : i # j => blocks[i].id # blocks[j].id

\* C3: Insert appends exactly one block: the result is one longer, its
\* first blocks are those of the input unchanged and in order, and the last
\* block has the requested kind, empty content, an id that does not occur
\* in the input, and metadata {items: [""]} for a list kind and empty
\* metadata otherwise.
C3_InsertAppends ==
  lastOp.op = "addBlock" =>
    /\ Len(blocks) = Len(prev) + 1
    /\ \A i \in 1..Len(prev) : blocks[i] = prev[i]
    /\ LET b == blocks[Len(blocks)] IN
         /\ DOMAIN b = {"id", "type", "content", "metadata"}
         /\ b.type = lastOp.type
         /\ b.content = ""
         /\ b.id \notin IdsOf(prev)
         /\ IF lastOp.type \in ListKinds
              THEN /\ DOMAIN b.metadata = {"items"}
                   /\ b.metadata.items = <<"">>
              ELSE DOMAIN b.metadata = {}

C3_Witness ==
  /\ lastOp.op = "addBlock"
  /\ lastOp.type = "list-ol"
  /\ Len(prev) = 1
  /\ Len(blocks) = 2

\* C4: Update and Remove with an id that no block carries leave the
\* document as it was: same blocks, same order, same contents.
C4_AbsentIdNoOp ==
  (lastOp.op \in {"updateBlock", "removeBlock"} /\ lastOp.id \notin IdsOf(prev))
    => blocks = prev

C4_Witness ==
  /\ lastOp.op = "updateBlock"
  /\ lastOp.id \notin IdsOf(prev)
  /\ "id" \notin DOMAIN lastOp.updates
  /\ prev # <<>>
  /\ blocks = prev

\* C5: Move leaves the document unchanged when the id is absent, when its
\* block is first and the direction is up, and when its block is last and
\* the direction is down.
C5_MoveEdgeNoOp ==
  (/\ lastOp.op = "moveBlock"
   /\ \/ PositionOf(prev, lastOp.id) = 0
      \/ lastOp.direction = "up" /\ PositionOf(prev, lastOp.id) = 1
      \/ lastOp.direction = "down" /\ PositionOf(prev, lastOp.id) = Len(prev))
    => blocks = prev

C5_Witness ==
  /\ lastOp.op = "moveBlock"
  /\ lastOp.direction = "up"
  /\ Len(prev) >= 2
  /\ PositionOf(prev, lastOp.id) = 1
  /\ blocks = prev

\* C6: moving a block up and then down restores the document, for every
\* id whose block is in the document and is not first.
C6_MoveRoundTrip ==
  \A id \in IdsOf(blocks) :
    PositionOf(blocks, id) > 1 =>
      moveBlock(moveBlock(blocks, id, "up"), id, "down") = blocks

\* the second half of a round trip of block "2" on the initial document
C6_Witness ==
  /\ lastOp = [op |-> "moveBlock", id |-> "2", direction |-> "down"]
  /\ prev = <<INITIAL_BLOCKS[2], INITIAL_BLOCKS[1]>>
  /\ blocks = INITIAL_BLOCKS

\* C7: outside the edge cases Move exchanges the block at the id with its
\* immediate neighbour in the given direction and leaves every other
\* position, the length and the set of ids as they were.
C7_MoveSwapsAdjacent ==
  MovedInside =>
    LET p == PositionOf(prev, lastOp.id)
        q == IF lastOp.direction = "up" THEN p - 1 ELSE p + 1
    IN /\ Len(blocks) = Len(prev)
       /\ blocks[p] = prev[q]
       /\ blocks[q] = prev[p]
       /\ \A i \in 1..Len(prev) : i \notin {p, q} => blocks[i] = prev[i]
       /\ IdsOf(blocks) = IdsOf(prev)

C7_Witness ==
  /\ MovedInside
  /\ lastOp.direction = "down"
  /\ Len(prev) = 3
  /\ PositionOf(prev, lastOp.id) = 2
  /\ blocks # prev

\* C9: in every reachable state each block has an items attribute in its
\* metadata if and only if its kind is a list kind.
C9_ItemsIffListKind ==
  \A i \in 1..Len(blocks) :
    hasMeta(blocks[i], "items") <=> blocks[i].type \in ListKinds

\* The rendering the export is compared with, written from the table of kinds
C8_Newline == "\n"

C8_Text(s) == [i \in 1..Len(s) |-> SubSeq(s, i, i)]

RECURSIVE C8_Flatten(_)
C8_Flatten(lines) ==
  IF Len(lines) = 0 THEN <<>>
  ELSE C8_Flatten(SubSeq(lines, 1, Len(lines) - 1)) \o lines[Len(lines)]

\* the texts, each but the first preceded by n newlines
C8_Separated(texts, n) ==
  C8_Flatten([i \in 1..Len(texts) |->
                (IF i = 1 THEN <<>> ELSE [k \in 1..n |-> C8_Newline])
                  \o texts[i]])

C8_Present(b, f) ==
  /\ "metadata" \in DOMAIN b
  /\ f \in DOMAIN b.metadata
  /\ b.metadata[f] # ""

C8_Items(b) ==
  IF "metadata" \in DOMAIN b /\ "items" \in DOMAIN b.metadata
    THEN b.metadata.items ELSE <<>>

C8_Decimal(n) ==
  IF n < 10 THEN C8_Text(ToString(n))
  ELSE C8_Text(ToString(n \div 10)) \o C8_Text(ToString(n % 10))

C8_Rendering(b) ==
  LET content == C8_Text(b.content)
      level == CASE b.type = "h1" -> 1 [] b.type = "h2" -> 2 [] b.type = "h3" -> 3
                 [] OTHER -> 0
  IN
  IF level > 0 THEN [k \in 1..level |-> "#"] \o <<" ">> \o content
  ELSE IF b.type = "paragraph" THEN content
  ELSE IF b.type = "blockquote" THEN <<">", " ">> \o content
  ELSE IF b.type = "code" THEN
    C8_Separated(
      << [k \in 1..3 |-> Backtick]
           \o (IF C8_Present(b, "language") THEN C8_Text(b.metadata.language)
               ELSE <<>>),
         content,
         [k \in 1..3 |-> Backtick] >>, 1)
  ELSE IF b.type = "image" THEN
    <<"!", "[">>
      \o (IF C8_Present(b, "alt") THEN C8_Text(b.metadata.alt)
          ELSE <<"i", "m", "a", "g", "e">>)
      \o <<"]", "(">> \o content \o <<")">>
  ELSE IF b.type = "list-ul" THEN
    C8_Separated([i \in 1..Len(C8_Items(b)) |->
                    <<"-", " ">> \o C8_Text(C8_Items(b)[i])], 1)
  ELSE IF b.type = "list-ol" THEN
    C8_Separated([i \in 1..Len(C8_Items(b)) |->
                    C8_Decimal(i) \o <<".", " ">> \o C8_Text(C8_Items(b)[i])], 1)
  ELSE <<"-", "-", "-">>

\* C8: the exported text is the per-kind renderings of the blocks, in
\* document order, with exactly two newlines between consecutive renderings
\* and none before the first or after the last; the empty document gives
\* the empty text, a list with no items renders as the empty text, a code
\* block with no language has an empty language tag and an image with no
\* alt text has the alt text image.
C8_Serialize ==
  lastOp.op = "handleDownload" =>
    /\ lastOp.md =
         C8_Separated([i \in 1..Len(blocks) |-> C8_Rendering(blocks[i])], 2)
    /\ blocks = <<>> => lastOp.md = <<>>
    /\ (Len(blocks) = 1 /\ blocks[1].type \in ListKinds
          /\ C8_Items(blocks[1]) = <<>>) => lastOp.md = <<>>

\* a numbered list of ten items followed by an image without alt text
C8_Witness ==
  /\ lastOp.op = "handleDownload"
  /\ Len(blocks) = 2
  /\ blocks[1].type = "list-ol"
  /\ Len(C8_Items(blocks[1])) = 10
  /\ blocks[2].type = "image"
  /\ ~C8_Present(blocks[2], "alt")
  /\ Len(lastOp.md) > 10

\* C10: the view mode starts as edit and is always one of the three modes;
\* in every state each of the three modes can be selected and becomes the
\* current mode; selecting a mode leaves the document unchanged, and
\* Insert, Update, Remove and Move leave the mode unchanged.
C10_ViewMode ==
  /\ viewMode = "edit"
  /\ [](/\ viewMode \in ViewModes
        /\ \A mode \in ViewModes : ENABLED SetViewMode(mode)
        /\ lastOp.op = "setViewMode" => viewMode = lastOp.mode /\ blocks = prev)
  /\ [][/\ lastOp'.op = "setViewMode" => blocks' = blocks
        /\ lastOp'.op \in DocumentOps => viewMode' = viewMode]_vars

\* a block added while the preview is shown
C10_Witness ==
  /\ lastOp.op = "addBlock"
  /\ viewMode = "preview"
  /\ Len(blocks) = Len(prev) + 1

====
